---- MODULE Spec2Model ----
(***************************************************************************)
(* uevloop: a statically allocated event loop, timer scheduler and signal  *)
(* relay.  The model covers the application container (timer, run flag,    *)
(* tick), the system pools and queues, the scheduler, the event loop and   *)
(* the signal relay.                                                       *)
(***************************************************************************)
EXTENDS Integers, Sequences, FiniteSets, TLC

(***************************************************************************)
(* Sizes.  The program's pools and queues have 2^7, 2^7, 2^5 and 2^4       *)
(* slots (uel_config.h); the model keeps the relation "a queue is smaller  *)
(* than the event pool" with smaller numbers, and a schedule queue smaller  *)
(* than the node pool, so that each pool can be depleted and each queue    *)
(* filled while the other resources are still available.                   *)
(***************************************************************************)
EventPoolSize == 3

NodePoolSize == 2

EventQueueSize == 2

ScheduleQueueSize == 1

\* Largest value the millisecond counter takes in the model.
MaxTime == 2

\* Largest delay / period handed to the scheduler.
MaxPeriod == 1

\* Number of API calls one closure invocation makes at most.
MaxCallsPerClosure == 1

\* Number of distinct user closures.
NClosures == 1

\* Width of the relay (number of signal ids).
RelayWidth == 1

\* Width of the relay of the relay-only specification.
WideRelayWidth == 2

\* Largest parameter value handed to emit.
MaxParam == 1

\* log2 of the capacity of the circular queue taken on its own.
CqueueSizeLog2 == 2

\* Largest value pushed to that queue.
MaxValue == 3

\* log2 of the capacity of the object pool taken on its own.
PoolSizeLog2 == 2

Events == 1..EventPoolSize

Nodes == 1..NodePoolSize

Closures == 1..NClosures

Signals == 0..(RelayWidth - 1)

WideSignals == 0..(WideRelayWidth - 1)

Params == 0..MaxParam

Values == 1..MaxValue

Times == 0..MaxTime

Periods == 0..MaxPeriod

\* The NULL handle.
NoHandle == 0

\* The NULL parameter of a closure.
NoParam == 0

\* Stands for the result of a step that returns no handle.
NoReturn == -1

(***************************************************************************)
(* System queues: the event queue and the schedule queue are circular      *)
(* queues of event handles, used only through push, pop, peek and count.   *)
(* Here a queue is the sequence of the handles it holds, oldest first,     *)
(* with its capacity; push appends and fails, changing nothing, when the   *)
(* queue is full; pop removes the oldest handle.                           *)
(***************************************************************************)
CqCount(q) == Len(q)

CqIsFull(q, cap) == Len(q) >= cap

CqIsEmpty(q) == Len(q) = 0

CqPeek(q) == IF CqIsEmpty(q) THEN NoHandle ELSE Head(q)

\* A push that puts the handle in front of the queue.
CqPushFront(q, cap, h) == IF CqIsFull(q, cap) THEN q ELSE <<h>> \o q

CqPush(q, cap, h) == IF CqIsFull(q, cap) THEN q ELSE Append(q, h)

CqPop(q) == IF CqIsEmpty(q) THEN q ELSE Tail(q)

(***************************************************************************)
(* Object pool: the free queue of slot handles, filled in slot order.      *)
(* acquire pops the oldest free handle; release appends, and fails only    *)
(* when the free queue is already full.                                    *)
(***************************************************************************)
PoolInit(n) == [i \in 1..n |-> i]

PoolIsEmpty(pool) == Len(pool) = 0

PoolAcquire(pool) == IF PoolIsEmpty(pool) THEN NoHandle ELSE Head(pool)

PoolAfterAcquire(pool) == IF PoolIsEmpty(pool) THEN pool ELSE Tail(pool)

\* A release that does not return the slot.
PoolReleaseNothing(pool, n, h) == pool

PoolRelease(pool, n, h) == IF Len(pool) >= n THEN pool ELSE Append(pool, h)

\* The millisecond counter and the due times are uint32_t.  Every time value of
\* the model stays far below 2^32 (the wraparound is outside the documented
\* operating range), so uint32_t addition is integer addition here.
U32Add(a, b) == a + b

(***************************************************************************)
(* Events: a tagged record.  config_* set the kind and the fields of that  *)
(* kind; the fields of the other kinds are meaningless and kept at their   *)
(* defaults.  node is the list node acquired together with a timer event.  *)
(***************************************************************************)
(***************************************************************************)
(* The circular queue as a structure: a buffer of 2^k slots, the indices   *)
(* head (next pop) and tail (next push) masked by 2^k - 1, and a count.    *)
(***************************************************************************)
RECURSIVE Pow2(_)
Pow2(k) == IF k = 0 THEN 1 ELSE 2 * Pow2(k - 1)

\* An index arithmetic that masks with one bit too few.
MaskedShort(i, mask) == i % mask

\* i & mask, for a mask of the form 2^k - 1.
Masked(i, mask) == i % (mask + 1)

CqueueInit(k) ==
  [buffer |-> [i \in 0..(Pow2(k) - 1) |-> NoHandle], mask |-> Pow2(k) - 1, head |-> 0, tail |-> 0, count |-> 0]

CqueueCount(q) == q.count

CqueueIsFull(q) == q.count >= q.mask + 1

CqueueIsEmpty(q) == q.count = 0

\* A push that overwrites the oldest value when the queue is full.
CqueuePushOverwrite(q, h) ==
  IF CqueueIsFull(q)
  THEN [q EXCEPT !.buffer[q.tail] = h, !.tail = Masked(q.tail + 1, q.mask), !.head = Masked(q.head + 1, q.mask)]
  ELSE [q EXCEPT !.buffer[q.tail] = h, !.tail = Masked(q.tail + 1, q.mask), !.count = @ + 1]

\* The queue after push(h); push returns whether the queue was not full.
CqueuePush(q, h) ==
  IF CqueueIsFull(q)
  THEN q
  ELSE [q EXCEPT !.buffer[q.tail] = h, !.tail = Masked(q.tail + 1, q.mask), !.count = @ + 1]

\* The value peek and pop return.
CqueuePeek(q) == IF CqueueIsEmpty(q) THEN NoHandle ELSE q.buffer[q.head]

\* The queue after pop.
CqueuePop(q) ==
  IF CqueueIsEmpty(q)
  THEN q
  ELSE [q EXCEPT !.head = Masked(q.head + 1, q.mask), !.count = @ - 1]

\* The values a queue holds, oldest first.
CqueueContents(q) == [i \in 1..q.count |-> q.buffer[Masked(q.head + i - 1, q.mask)]]

(***************************************************************************)
(* The object pool as a structure: a circular queue of the addresses of    *)
(* its free slots, fully populated in slot order at initialisation.        *)
(***************************************************************************)
RECURSIVE CqueuePushAll(_, _)
CqueuePushAll(q, hs) == IF hs = <<>> THEN q ELSE CqueuePushAll(CqueuePush(q, Head(hs)), Tail(hs))

\* An initialisation that populates the free queue in reverse slot order.
ObjpoolInitReversed(k) == [queue |-> CqueuePushAll(CqueueInit(k), [i \in 1..Pow2(k) |-> Pow2(k) + 1 - i])]

ObjpoolInit(k) == [queue |-> CqueuePushAll(CqueueInit(k), [i \in 1..Pow2(k) |-> i])]

\* The slot acquire returns, NULL if the pool is depleted.
ObjpoolAcquire(p) == CqueuePeek(p.queue)

\* An acquire that leaves the slot it hands out in the free queue.
ObjpoolAcquireKeeps(p) == p

ObjpoolAfterAcquire(p) == [p EXCEPT !.queue = CqueuePop(@)]

\* A release that reports success and drops the slot when the free queue is full.
ObjpoolReleasedAlways(p) == TRUE

\* What release returns: whether the push to the free queue succeeded.
ObjpoolReleased(p) == ~CqueueIsFull(p.queue)

ObjpoolAfterRelease(p, h) == [p EXCEPT !.queue = CqueuePush(@, h)]

ObjpoolIsEmpty(p) == CqueueIsEmpty(p.queue)

BlankEvent == [kind |-> "NONE", closure |-> 0, params |-> NoParam, due_time |-> 0, period |-> 0, repeating |-> FALSE, immediate |-> FALSE, signal_id |-> 0, recurring |-> FALSE, listening |-> FALSE, node |-> NoHandle]

EventConfigClosure(closure) == [BlankEvent EXCEPT !.kind = "CLOSURE", !.closure = closure]

\* due_time = immediate ? current_time : current_time + period
TimerFirstDue(period, immediate, current_time) == IF immediate THEN current_time ELSE U32Add(current_time, period)

EventConfigTimer(period, repeating, immediate, closure, current_time, node) ==
  [BlankEvent EXCEPT !.kind = "TIMER", !.closure = closure, !.period = period, !.repeating = repeating, !.immediate = immediate,
                     !.due_time = TimerFirstDue(period, immediate, current_time), !.node = node]

EventConfigSignalListener(signal_id, closure, recurring) ==
  [BlankEvent EXCEPT !.kind = "SIGNAL_LISTENER", !.closure = closure, !.signal_id = signal_id,
                     !.recurring = recurring, !.listening = TRUE]

VARIABLES
  timer, run_scheduler, events, event_pool, llist_node_pool, event_queue, schedule_queue,
  timer_list, signal_vector, pc, remaining, cur, calls,
  run_snapshot, run_log, run_pushed, eq_order, fired, born, tick_time, tick_due, tick_sched, ret,
  cq, cq_fifo, cq_ret, objpool, pool_out, pool_ret, pool_wf, pool_fresh, pool_log,
  lock, ctx_pc, ctx_reg, ctx_h

\* The state of the application: core, system pools and queues, scheduler, relay
\* and event loop, with its history variables.
appVars == <<timer, run_scheduler, events, event_pool, llist_node_pool, event_queue, schedule_queue,
          timer_list, signal_vector, pc, remaining, cur, calls,
          run_snapshot, run_log, run_pushed, eq_order, fired, born, tick_time, tick_due, tick_sched, ret>>

\* A circular queue and an object pool taken on their own, as the unit of the
\* container library:
\*   cq        the circular queue: buffer, mask, head, tail, count
\*   cq_fifo   history: the values pushed successfully and not yet popped
\*   cq_ret    the operation just made on cq and what it returned
\*   objpool   the object pool: the circular queue of its free slots
\*   pool_out  history: per slot, how many owners hold it (acquired it and
\*             have not released it), kept up to the first release of a slot
\*             that is not outstanding
\*   pool_ret  the operation just made on the pool and what it returned
\*   pool_wf   history: every release so far gave back an outstanding slot
\*   pool_fresh  history: no release has been made since initialisation
\*   pool_log  history: what the acquires made while the pool was fresh returned
\* and the contexts that share them through the containers:
\*   lock      the context inside the critical section, "none" when it is free
\*   ctx_pc    per context, the container operation it is in the middle of
\*   ctx_reg   per context, the copy of the shared structure its operation
\*             read on entry and writes back, updated, on exit
\*   ctx_h     per context, the event slot it holds in hand
ctxVars == <<lock, ctx_pc, ctx_reg, ctx_h>>

dsVars == <<cq, cq_fifo, cq_ret, objpool, pool_out, pool_ret, pool_wf, pool_fresh, pool_log, ctxVars>>

vars == <<appVars, dsVars>>

(***************************************************************************)
(* History variables (they record, and decide nothing):                    *)
(*   run_snapshot  the event queue when the run in progress was entered    *)
(*   run_log       the events that run has popped: the handle, the kind    *)
(*                 and the listening flag found, and whether the closure   *)
(*                 was invoked                                             *)
(*   run_pushed    the events pushed to the event queue since that entry   *)
(*   eq_order      the events pushed to the event queue and not yet popped *)
(*   fired         per timer event, how often its closure was invoked      *)
(*   born          per timer event, the timer counter when it was created  *)
(*   tick_time     the timer counter the tick in progress observed, or -1  *)
(*   tick_due      the timers that were due when that tick was entered     *)
(*   tick_sched    whether that tick ran the scheduler step                *)
(*   ret           what the call just made returned: a handle or none, or  *)
(*                 NoReturn after a step that returns no handle            *)
(***************************************************************************)
loopVars == <<pc, remaining, cur>>

\* What an API call leaves of the run in progress: it only counts the call.
Called == /\ UNCHANGED loopVars
          /\ calls' = IF pc = "closure" THEN calls + 1 ELSE calls

runHist == <<run_snapshot, run_log>>

tickHist == <<tick_time, tick_due, tick_sched>>

histVars == <<run_snapshot, run_log, run_pushed, fired, born, tick_time, tick_due, tick_sched>>

\* An API call pushed the handles hs to the event queue.
Pushed(hs) == run_pushed' = IF pc = "idle" THEN run_pushed ELSE run_pushed \o hs

InitWith(width) ==
  /\ timer = 0
  /\ run_scheduler = TRUE
  /\ events = [e \in Events |-> BlankEvent]
  /\ event_pool = PoolInit(EventPoolSize)
  /\ llist_node_pool = PoolInit(NodePoolSize)
  /\ event_queue = <<>>
  /\ schedule_queue = <<>>
  /\ timer_list = <<>>
  /\ signal_vector = [s \in 0..(width - 1) |-> <<>>]
  /\ pc = "idle"
  /\ remaining = 0
  /\ cur = NoHandle
  /\ calls = 0
  /\ run_snapshot = <<>>
  /\ run_log = <<>>
  /\ eq_order = <<>>
  /\ run_pushed = <<>>
  /\ fired = [e \in Events |-> 0]
  /\ born = [e \in Events |-> 0]
  /\ tick_time = -1
  /\ tick_due = <<>>
  /\ tick_sched = FALSE
  /\ ret = NoReturn
  /\ cq = CqueueInit(CqueueSizeLog2)
  /\ cq_fifo = <<>>
  /\ cq_ret = [op |-> "init", ok |-> TRUE, value |-> NoHandle]
  /\ objpool = ObjpoolInit(PoolSizeLog2)
  /\ pool_out = [h \in 1..Pow2(PoolSizeLog2) |-> 0]
  /\ pool_ret = [op |-> "init", ok |-> TRUE, value |-> NoHandle]
  /\ pool_wf = TRUE
  /\ pool_fresh = TRUE
  /\ pool_log = <<>>
  /\ lock = "none"
  /\ ctx_pc = [c \in {"main", "isr"} |-> "idle"]
  /\ ctx_reg = [c \in {"main", "isr"} |-> CqueueInit(CqueueSizeLog2)]
  /\ ctx_h = [c \in {"main", "isr"} |-> NoHandle]

Init == InitWith(RelayWidth)

\* The state after construction with the wider relay.
InitRelay == InitWith(WideRelayWidth)

\* Whether a handle is still held by one of the queues or by the timer list.
InSeq(e, seq) == \E i \in 1..Len(seq) : seq[i] = e

Referenced(e, eq, sq, list) == InSeq(e, eq) \/ InSeq(e, sq) \/ InSeq(e, list)

\* release does not clear a slot.  The contents of a released slot are read again
\* only through a handle that a queue or the timer list still holds (a listener
\* list reads no more of a released slot than that it is not listening); when
\* there is none, the model forgets the slot's contents.
Released(e, ev, eq) == IF Referenced(e, eq, schedule_queue, timer_list) THEN ev ELSE BlankEvent

\* The contexts that may call the public API: the main context outside a run,
\* and a closure running inside a run.
CanCall == pc = "idle" \/ (pc = "closure" /\ calls < MaxCallsPerClosure)

(***************************************************************************)
(* Application: update_timer (from the periodic ISR).                      *)
(***************************************************************************)
\* An update_timer that leaves the timer counter as it is.
SchUpdateTimerKeeps(new_time) == timer' = timer

SchUpdateTimer(new_time) == timer' = new_time

AppUpdateTimer(new_time) ==
  /\ pc \in {"idle", "closure"}
  /\ new_time >= timer
  /\ run_scheduler' = TRUE
  /\ SchUpdateTimer(new_time)
  /\ UNCHANGED <<events, event_pool, llist_node_pool, event_queue, schedule_queue, timer_list,
                 signal_vector, eq_order>>
  /\ UNCHANGED <<pc, remaining, cur, calls>>
  /\ UNCHANGED histVars
  /\ ret' = NoReturn
  /\ UNCHANGED dsVars

(***************************************************************************)
(* Event loop: enqueue_closure.                                            *)
(***************************************************************************)
EvloopEnqueueClosure(closure) ==
  /\ CanCall
  /\ LET e == PoolAcquire(event_pool) IN
       IF e = NoHandle
       THEN /\ UNCHANGED <<events, event_pool, event_queue, eq_order, run_pushed, fired, born>>
            /\ ret' = NoHandle
       ELSE IF CqIsFull(event_queue, EventQueueSize)
       THEN /\ event_pool' = PoolRelease(PoolAfterAcquire(event_pool), EventPoolSize, e)
            /\ UNCHANGED <<events, event_queue, eq_order, run_pushed, fired, born>>
            /\ ret' = NoHandle
       ELSE /\ events' = [events EXCEPT ![e] = EventConfigClosure(closure)]
            /\ event_pool' = PoolAfterAcquire(event_pool)
            /\ event_queue' = CqPush(event_queue, EventQueueSize, e)
            /\ eq_order' = Append(eq_order, e)
            /\ Pushed(<<e>>)
            /\ fired' = [fired EXCEPT ![e] = 0]
            /\ born' = [born EXCEPT ![e] = 0]
            /\ ret' = e
  /\ UNCHANGED <<timer, run_scheduler, llist_node_pool, schedule_queue, timer_list, signal_vector>>
  /\ Called
  /\ UNCHANGED runHist
  /\ UNCHANGED tickHist
  /\ UNCHANGED dsVars

(***************************************************************************)
(* Scheduler: run_later and run_at_intervals.  Both acquire an event and   *)
(* a list node and configure a TIMER; the event goes to the schedule       *)
(* queue, except that an immediate timer goes straight to the event queue. *)
(* On exhaustion what was acquired is released and none is returned.       *)
(***************************************************************************)
\* A scheduler that sends every new timer to the schedule queue.
TimerGoesToScheduleQueue(immediate) == FALSE

TimerGoesToEventQueue(immediate) == immediate

SchCreateTimer(period, repeating, immediate, closure) ==
  /\ CanCall
  /\ LET e == PoolAcquire(event_pool)
         n == PoolAcquire(llist_node_pool)
         ev == EventConfigTimer(period, repeating, immediate, closure, timer, n)
         toEq == TimerGoesToEventQueue(immediate)
         full == IF toEq THEN CqIsFull(event_queue, EventQueueSize) ELSE CqIsFull(schedule_queue, ScheduleQueueSize)
     IN
       IF e = NoHandle
       THEN /\ UNCHANGED <<events, event_pool, llist_node_pool, event_queue, schedule_queue, eq_order,
                           run_pushed, fired, born>>
            /\ ret' = NoHandle
       ELSE IF n = NoHandle
       THEN /\ event_pool' = PoolRelease(PoolAfterAcquire(event_pool), EventPoolSize, e)
            /\ UNCHANGED <<events, llist_node_pool, event_queue, schedule_queue, eq_order,
                           run_pushed, fired, born>>
            /\ ret' = NoHandle
       ELSE IF full
       THEN /\ event_pool' = PoolRelease(PoolAfterAcquire(event_pool), EventPoolSize, e)
            /\ llist_node_pool' = PoolRelease(PoolAfterAcquire(llist_node_pool), NodePoolSize, n)
            /\ UNCHANGED <<events, event_queue, schedule_queue, eq_order, run_pushed, fired, born>>
            /\ ret' = NoHandle
       ELSE /\ events' = [events EXCEPT ![e] = ev]
            /\ fired' = [fired EXCEPT ![e] = 0]
            /\ born' = [born EXCEPT ![e] = timer]
            /\ ret' = e
            /\ event_pool' = PoolAfterAcquire(event_pool)
            /\ llist_node_pool' = PoolAfterAcquire(llist_node_pool)
            /\ IF toEq
               THEN /\ event_queue' = CqPush(event_queue, EventQueueSize, e)
                    /\ eq_order' = Append(eq_order, e)
                    /\ Pushed(<<e>>)
                    /\ UNCHANGED schedule_queue
               ELSE /\ schedule_queue' = CqPush(schedule_queue, ScheduleQueueSize, e)
                    /\ UNCHANGED <<event_queue, eq_order, run_pushed>>
  /\ UNCHANGED <<timer, run_scheduler, timer_list, signal_vector>>
  /\ Called
  /\ UNCHANGED runHist
  /\ UNCHANGED tickHist
  /\ UNCHANGED dsVars

SchRunLater(delay_ms, closure) == SchCreateTimer(delay_ms, FALSE, FALSE, closure)

SchRunAtIntervals(period_ms, immediate, closure) == SchCreateTimer(period_ms, TRUE, immediate, closure)

(***************************************************************************)
(* Scheduler: manage_timers.                                               *)
(*  1. drain the schedule queue, inserting each event into the timer list  *)
(*     behind every entry whose due time is not later than its own;        *)
(*  2. detach the due head of the list and push it, in list order, to the  *)
(*     event queue.  A push to a full queue fails and the event is lost.   *)
(***************************************************************************)
\* An insertion that puts a timer in front of the listed timers of equal due time.
RECURSIVE TimerInsertIndexBeforeEqual(_, _, _, _)
TimerInsertIndexBeforeEqual(list, i, due, evs) ==
  IF i > Len(list) THEN i
  ELSE IF evs[list[i]].due_time >= due THEN i
  ELSE TimerInsertIndexBeforeEqual(list, i + 1, due, evs)

RECURSIVE TimerInsertIndex(_, _, _, _)
TimerInsertIndex(list, i, due, evs) ==
  IF i > Len(list) THEN i
  ELSE IF evs[list[i]].due_time > due THEN i
  ELSE TimerInsertIndex(list, i + 1, due, evs)

\* A list insertion that ignores the due times.
TimerListInsertAtTail(list, e, evs) == Append(list, e)

TimerListInsert(list, e, evs) ==
  LET i == TimerInsertIndex(list, 1, evs[e].due_time, evs)
  IN SubSeq(list, 1, i - 1) \o <<e>> \o SubSeq(list, i, Len(list))

RECURSIVE ScheduleAll(_, _, _)
ScheduleAll(scheduled, list, evs) ==
  IF scheduled = <<>> THEN list
  ELSE ScheduleAll(Tail(scheduled), TimerListInsert(list, Head(scheduled), evs), evs)

RECURSIVE CqPopN(_, _)
CqPopN(q, n) == IF n = 0 THEN q ELSE CqPopN(CqPop(q), n - 1)

\* A scheduler that takes every listed timer for due.
TimerIsAlwaysDue(ev, now) == TRUE

TimerIsDue(ev, now) == ev.due_time <= now

RECURSIVE DueCount(_, _, _)
DueCount(list, now, evs) ==
  IF list = <<>> THEN 0
  ELSE IF TimerIsDue(evs[Head(list)], now) THEN 1 + DueCount(Tail(list), now, evs)
  ELSE 0

RECURSIVE CqPushAll(_, _, _)
CqPushAll(q, cap, hs) == IF hs = <<>> THEN q ELSE CqPushAll(CqPush(q, cap, Head(hs)), cap, Tail(hs))

\* How many of n pushes a queue accepts.
CqAccepts(q, cap, n) == IF n <= cap - Len(q) THEN n ELSE IF cap >= Len(q) THEN cap - Len(q) ELSE 0

\* The timer list once the schedule queue has been drained into it.
ManagedList == ScheduleAll(schedule_queue, timer_list, events)

\* The due timers manage_timers detaches, in list order.
ManagedDue == SubSeq(ManagedList, 1, DueCount(ManagedList, timer, events))

\* The timer list once its first n timers, the due ones, have been detached.
TimerListAfterDetach(list, n) == SubSeq(list, n + 1, Len(list))

SchManageTimers ==
  /\ schedule_queue' = CqPopN(schedule_queue, CqCount(schedule_queue))
  /\ timer_list' = TimerListAfterDetach(ManagedList, Len(ManagedDue))
  /\ event_queue' = CqPushAll(event_queue, EventQueueSize, ManagedDue)
  /\ eq_order' = eq_order \o SubSeq(ManagedDue, 1, CqAccepts(event_queue, EventQueueSize, Len(ManagedDue)))

ManageTimers ==
  /\ pc = "idle"
  /\ SchManageTimers
  /\ UNCHANGED <<timer, run_scheduler, events, event_pool, llist_node_pool, signal_vector>>
  /\ UNCHANGED <<pc, remaining, cur, calls>>
  /\ UNCHANGED histVars
  /\ ret' = NoReturn
  /\ UNCHANGED dsVars

(***************************************************************************)
(* Event loop: run.  The number of events to process is read once, when    *)
(* run is entered; each event is popped, its closure is invoked (position  *)
(* "closure", where the closure may call the public API) and the event is  *)
(* then disposed of according to its kind.                                 *)
(***************************************************************************)
\* A run that processes one event more than it found at entry.
RunCountOneMore(q) == CqCount(q) + 1

\* A run that leaves the last of several events it found at entry.
RunCountOneLess(q) == IF CqCount(q) > 1 THEN CqCount(q) - 1 ELSE CqCount(q)

\* The number of events one run processes, given the event queue at entry.
RunCount(q) == CqCount(q)

\* A run that does not count the events it has processed.
RemainingUnchanged(n) == n

\* The number of events a run has still to process once it has processed one.
RemainingAfterEvent(n) == n - 1

EvloopRunEnter(q) ==
  /\ pc' = "run"
  /\ remaining' = RunCount(q)
  /\ cur' = NoHandle
  /\ calls' = 0
  /\ run_snapshot' = q
  /\ run_log' = <<>>
  /\ run_pushed' = <<>>

\* evloop_run called on its own.
EvloopRun ==
  /\ pc = "idle"
  /\ EvloopRunEnter(event_queue)
  /\ UNCHANGED tickHist
  /\ UNCHANGED <<timer, run_scheduler, events, event_pool, llist_node_pool, event_queue, schedule_queue,
                 timer_list, signal_vector, eq_order, fired, born>>
  /\ ret' = NoReturn
  /\ UNCHANGED dsVars

\* app_tick: the scheduler step, gated on the run_scheduler flag, then the run.
\* A tick that runs the scheduler step whatever the flag says.
TickAlwaysRunsScheduler == TRUE

TickRunsScheduler == run_scheduler

AppTick ==
  /\ pc = "idle"
  /\ IF TickRunsScheduler
     THEN SchManageTimers
     ELSE UNCHANGED <<schedule_queue, timer_list, event_queue, eq_order>>
  /\ run_scheduler' = FALSE
  /\ EvloopRunEnter(event_queue')
  /\ tick_time' = timer
  /\ tick_due' = ManagedDue
  /\ tick_sched' = TickRunsScheduler
  /\ UNCHANGED <<timer, events, event_pool, llist_node_pool, signal_vector, fired, born>>
  /\ ret' = NoReturn
  /\ UNCHANGED dsVars

\* A dispatch that invokes the closure of every popped event.
InvokesAlways(ev) == TRUE

\* Whether run invokes the closure of a popped event.
InvokesClosure(ev) == ~(ev.kind = "SIGNAL_LISTENER" /\ ~ev.listening)

RunPop ==
  /\ pc = "run"
  /\ remaining > 0
  /\ ~CqIsEmpty(event_queue)
  /\ LET e == CqPeek(event_queue) IN
       /\ event_queue' = CqPop(event_queue)
       /\ eq_order' = IF eq_order = <<>> THEN eq_order ELSE Tail(eq_order)
       /\ run_log' = Append(run_log, [ev |-> e, kind |-> events[e].kind, listening |-> events[e].listening,
                                     invoked |-> InvokesClosure(events[e]), params |-> events[e].params])
       /\ IF InvokesClosure(events[e])
          THEN /\ pc' = "closure"
               /\ cur' = e
               /\ fired' = [fired EXCEPT ![e] = IF events[e].kind = "TIMER" THEN @ + 1 ELSE @]
               /\ UNCHANGED <<remaining, event_pool, events>>
          ELSE /\ event_pool' = PoolRelease(event_pool, EventPoolSize, e)
               /\ events' = [events EXCEPT ![e] = Released(e, @, CqPop(event_queue))]
               /\ remaining' = RemainingAfterEvent(remaining)
               /\ UNCHANGED <<pc, cur, fired>>
  /\ calls' = 0
  /\ UNCHANGED <<timer, run_scheduler, llist_node_pool, schedule_queue, timer_list,
                 signal_vector, run_snapshot, run_pushed, born>>
  /\ UNCHANGED tickHist
  /\ ret' = NoReturn
  /\ UNCHANGED dsVars

\* A rescheduling that starts the next period at the current timer counter.
TimerNextDueFromNow(ev) == U32Add(timer, ev.period)

\* The due time of a repeating timer that has just fired.
TimerNextDue(ev) == U32Add(ev.due_time, ev.period)

\* The entries of a listener list other than those of event e, and the nodes of those of e.
ListWithout(list, e) == SelectSeq(list, LAMBDA x: x.value # e)

RECURSIVE ReleaseAll(_, _, _)
ReleaseAll(pool, n, hs) == IF hs = <<>> THEN pool ELSE ReleaseAll(PoolRelease(pool, n, Head(hs)), n, Tail(hs))

NodesOf(list) == [i \in 1..Len(list) |-> list[i].node]

ClosureReturn ==
  /\ pc = "closure"
  /\ LET e == cur
         ev == events[e]
     IN
       CASE ev.kind = "TIMER" /\ ev.repeating ->
              /\ events' = [events EXCEPT ![e].due_time = TimerNextDue(ev)]
              /\ schedule_queue' = CqPush(schedule_queue, ScheduleQueueSize, e)
              /\ UNCHANGED <<event_pool, llist_node_pool, signal_vector>>
         [] ev.kind = "TIMER" /\ ~ev.repeating ->
              /\ event_pool' = PoolRelease(event_pool, EventPoolSize, e)
              /\ llist_node_pool' = PoolRelease(llist_node_pool, NodePoolSize, ev.node)
              /\ events' = [events EXCEPT ![e] = Released(e, @, event_queue)]
              /\ UNCHANGED <<schedule_queue, signal_vector>>
         [] ev.kind = "SIGNAL_LISTENER" /\ ~ev.listening ->
              /\ event_pool' = PoolRelease(event_pool, EventPoolSize, e)
              /\ events' = [events EXCEPT ![e] = Released(e, @, event_queue)]
              /\ UNCHANGED <<schedule_queue, llist_node_pool, signal_vector>>
         [] ev.kind = "SIGNAL_LISTENER" /\ ev.listening /\ ~ev.recurring ->
              /\ events' = [events EXCEPT ![e] = Released(e, [@ EXCEPT !.listening = FALSE], event_queue)]
              /\ event_pool' = PoolRelease(event_pool, EventPoolSize, e)
              /\ signal_vector' = [signal_vector EXCEPT ![ev.signal_id] = ListWithout(@, e)]
              /\ llist_node_pool' = ReleaseAll(llist_node_pool, NodePoolSize,
                                               NodesOf(SelectSeq(signal_vector[ev.signal_id], LAMBDA x: x.value = e)))
              /\ UNCHANGED schedule_queue
         [] ev.kind = "SIGNAL_LISTENER" /\ ev.listening /\ ev.recurring ->
              UNCHANGED <<events, event_pool, llist_node_pool, schedule_queue, signal_vector>>
         [] ev.kind \notin {"TIMER", "SIGNAL_LISTENER"} ->
              /\ event_pool' = PoolRelease(event_pool, EventPoolSize, e)
              /\ events' = [events EXCEPT ![e] = Released(e, @, event_queue)]
              /\ UNCHANGED <<schedule_queue, llist_node_pool, signal_vector>>
  /\ pc' = "run"
  /\ cur' = NoHandle
  /\ calls' = 0
  /\ remaining' = RemainingAfterEvent(remaining)
  /\ fired' = [fired EXCEPT ![cur] = IF events'[cur].kind = "TIMER" THEN @ ELSE 0]
  /\ born' = [born EXCEPT ![cur] = IF events'[cur].kind = "TIMER" THEN @ ELSE 0]
  /\ UNCHANGED <<timer, run_scheduler, event_queue, timer_list, eq_order, run_pushed>>
  /\ UNCHANGED runHist
  /\ UNCHANGED tickHist
  /\ ret' = NoReturn
  /\ UNCHANGED dsVars

\* run returns to its caller.
RunReturn ==
  /\ pc = "run"
  /\ remaining = 0 \/ CqIsEmpty(event_queue)
  /\ pc' = "idle"
  /\ remaining' = 0
  /\ run_snapshot' = <<>>
  /\ run_log' = <<>>
  /\ run_pushed' = <<>>
  /\ tick_time' = -1
  /\ tick_due' = <<>>
  /\ tick_sched' = FALSE
  /\ UNCHANGED <<timer, run_scheduler, events, event_pool, llist_node_pool, event_queue, schedule_queue,
                 timer_list, signal_vector, cur, calls, eq_order, fired, born>>
  /\ ret' = NoReturn
  /\ UNCHANGED dsVars

(***************************************************************************)
(* Signal relay.  A listener list holds nodes whose payload is a listener  *)
(* event.  emit walks the list of the signal: a listening listener is      *)
(* pushed to the event queue, a node whose listener no longer listens is   *)
(* removed from the list.                                                  *)
(***************************************************************************)
\* A registration that puts the new listener at the head of the listener list.
LlistPushHead(list, x) == <<x>> \o list

\* listen pushes the node of the new listener at the tail of the listener list.
LlistPushTail(list, x) == Append(list, x)

SignalListenWith(signal_id, closure, recurring) ==
  /\ CanCall
  /\ LET e == PoolAcquire(event_pool)
         n == PoolAcquire(llist_node_pool)
     IN
       IF e = NoHandle
       THEN /\ UNCHANGED <<events, event_pool, llist_node_pool, signal_vector, fired, born>>
            /\ ret' = NoHandle
       ELSE IF n = NoHandle
       THEN /\ event_pool' = PoolRelease(PoolAfterAcquire(event_pool), EventPoolSize, e)
            /\ UNCHANGED <<events, llist_node_pool, signal_vector, fired, born>>
            /\ ret' = NoHandle
       ELSE /\ events' = [events EXCEPT ![e] = EventConfigSignalListener(signal_id, closure, recurring)]
            /\ fired' = [fired EXCEPT ![e] = 0]
            /\ born' = [born EXCEPT ![e] = 0]
            /\ ret' = e
            /\ event_pool' = PoolAfterAcquire(event_pool)
            /\ llist_node_pool' = PoolAfterAcquire(llist_node_pool)
            /\ signal_vector' = [signal_vector EXCEPT ![signal_id] = LlistPushTail(@, [node |-> n, value |-> e])]
  /\ UNCHANGED <<timer, run_scheduler, event_queue, schedule_queue, timer_list, eq_order, run_pushed>>
  /\ Called
  /\ UNCHANGED runHist
  /\ UNCHANGED tickHist
  /\ UNCHANGED dsVars

SignalListen(signal_id, closure) == SignalListenWith(signal_id, closure, TRUE)

SignalListenOnce(signal_id, closure) == SignalListenWith(signal_id, closure, FALSE)

\* The walk of emit over a listener list: the list kept, the event queue, the
\* events pushed and the nodes removed.
RECURSIVE EmitWalk(_, _, _, _)
EmitWalk(list, q, cap, evs) ==
  IF list = <<>> THEN [kept |-> <<>>, queue |-> q, pushed |-> <<>>, removed |-> <<>>]
  ELSE LET x == Head(list) IN
    IF evs[x.value].listening
    THEN LET r == EmitWalk(Tail(list), CqPush(q, cap, x.value), cap, evs) IN
           [r EXCEPT !.kept = <<x>> \o @,
                     !.pushed = IF CqIsFull(q, cap) THEN @ ELSE <<x.value>> \o @]
    ELSE LET r == EmitWalk(Tail(list), q, cap, evs) IN
           [r EXCEPT !.removed = <<x.node>> \o @]

SignalEmit(signal_id, params) ==
  /\ CanCall
  /\ LET r == EmitWalk(signal_vector[signal_id], event_queue, EventQueueSize, events) IN
       /\ signal_vector' = [signal_vector EXCEPT ![signal_id] = r.kept]
       /\ events' = [e \in Events |->
                       IF \E i \in 1..Len(r.kept) : r.kept[i].value = e
                       THEN [events[e] EXCEPT !.params = params]
                       ELSE events[e]]
       /\ event_queue' = r.queue
       /\ eq_order' = eq_order \o r.pushed
       /\ llist_node_pool' = ReleaseAll(llist_node_pool, NodePoolSize, r.removed)
       /\ Pushed(r.pushed)
  /\ UNCHANGED <<timer, run_scheduler, event_pool, schedule_queue, timer_list, fired, born>>
  /\ Called
  /\ UNCHANGED runHist
  /\ UNCHANGED tickHist
  /\ ret' = NoReturn
  /\ UNCHANGED dsVars

\* An unlisten that flips the listening flag.
EventsAfterToggle(evs, listener) == [evs EXCEPT ![listener].listening = ~@]

\* The events after unlisten has marked the listener as not listening.
EventsAfterUnlisten(evs, listener) == [evs EXCEPT ![listener].listening = FALSE]

SignalUnlisten(listener) ==
  /\ CanCall
  /\ events[listener].kind = "SIGNAL_LISTENER"
  /\ events' = EventsAfterUnlisten(events, listener)
  /\ UNCHANGED <<timer, run_scheduler, event_pool, llist_node_pool, event_queue, schedule_queue,
                 timer_list, signal_vector, eq_order>>
  /\ Called
  /\ UNCHANGED histVars
  /\ ret' = NoReturn
  /\ UNCHANGED dsVars

(***************************************************************************)
(* Specifications.                                                         *)
(***************************************************************************)
\* The steps of a run in progress.
RunSteps == RunPop \/ ClosureReturn \/ RunReturn

\* Scheduler and event loop, called directly and through the application.
SchedNext ==
  \/ \E t \in Times : AppUpdateTimer(t)
  \/ \E c \in Closures : EvloopEnqueueClosure(c)
  \/ \E d \in Periods, c \in Closures : SchRunLater(d, c)
  \/ \E p \in Periods \ {0}, i \in BOOLEAN, c \in Closures : SchRunAtIntervals(p, i, c)
  \/ ManageTimers
  \/ EvloopRun
  \/ AppTick
  \/ RunSteps

RelayNext ==
  \/ \E s \in Signals, c \in Closures : SignalListen(s, c)
  \/ \E s \in Signals, c \in Closures : SignalListenOnce(s, c)
  \/ \E s \in Signals : SignalEmit(s, NoParam)
  \/ \E l \in Events : SignalUnlisten(l)

\* The relay alone, two signals wide, with recurring listeners that are never
\* unlistened and emits that carry a parameter, and the event loop that runs
\* the listeners.
WideRelayNext ==
  \/ \E s \in WideSignals, c \in Closures : SignalListen(s, c)
  \/ \E s \in WideSignals, p \in Params : SignalEmit(s, p)
  \/ EvloopRun
  \/ RunSteps

Next == SchedNext \/ RelayNext

\* The event loop fed by enqueue_closure and by the relay.
LoopNext ==
  \/ \E c \in Closures : EvloopEnqueueClosure(c)
  \/ EvloopRun
  \/ RunSteps
  \/ RelayNext

Spec == Init /\ [][Next]_vars

\* Only the scheduler, the event loop and the application, no relay.
SpecSched == Init /\ [][SchedNext]_vars

SpecLoop == Init /\ [][LoopNext]_vars

SpecRelay == InitRelay /\ [][WideRelayNext]_vars

\* The event loop with closures that enqueue closures and emit signals, and a
\* run that, once entered, keeps executing: the steps of a run are taken under
\* weak fairness, the calls of the application are not.
RunLoopNext ==
  \/ \E c \in Closures : EvloopEnqueueClosure(c)
  \/ \E s \in Signals, c \in Closures : SignalListen(s, c)
  \/ \E s \in Signals : SignalEmit(s, NoParam)
  \/ EvloopRun
  \/ RunSteps

SpecRunFair ==
  /\ Init
  /\ [][RunLoopNext]_vars
  /\ WF_vars(RunPop)
  /\ WF_vars(ClosureReturn)
  /\ WF_vars(RunReturn)


(***************************************************************************)
(* The circular queue and the object pool on their own.                    *)
(***************************************************************************)
cqVars == <<cq, cq_fifo, cq_ret>>

poolVars == <<objpool, pool_out, pool_ret, pool_wf, pool_fresh, pool_log>>

QueuePush(h) ==
  /\ cq' = CqueuePush(cq, h)
  /\ cq_ret' = [op |-> "push", ok |-> ~CqueueIsFull(cq), value |-> h]
  /\ cq_fifo' = IF cq_ret'.ok THEN Append(cq_fifo, h) ELSE cq_fifo
  /\ UNCHANGED <<appVars, poolVars, ctxVars>>

QueuePop ==
  /\ cq' = CqueuePop(cq)
  /\ cq_ret' = [op |-> "pop", ok |-> ~CqueueIsEmpty(cq), value |-> CqueuePeek(cq)]
  /\ cq_fifo' = IF cq_fifo = <<>> THEN cq_fifo ELSE Tail(cq_fifo)
  /\ UNCHANGED <<appVars, poolVars, ctxVars>>

QueuePeek ==
  /\ cq_ret' = [op |-> "peek", ok |-> ~CqueueIsEmpty(cq), value |-> CqueuePeek(cq)]
  /\ UNCHANGED <<cq, cq_fifo>>
  /\ UNCHANGED <<appVars, poolVars, ctxVars>>

QueueNext ==
  \/ \E h \in Values : QueuePush(h)
  \/ QueuePop
  \/ QueuePeek

SpecQueue == Init /\ [][QueueNext]_vars

Slots == 1..Pow2(PoolSizeLog2)

PoolAcquireStep ==
  /\ objpool' = ObjpoolAfterAcquire(objpool)
  /\ pool_ret' = [op |-> "acquire", ok |-> ~ObjpoolIsEmpty(objpool), value |-> ObjpoolAcquire(objpool)]
  /\ pool_out' = IF pool_wf /\ pool_ret'.ok THEN [pool_out EXCEPT ![pool_ret'.value] = @ + 1] ELSE pool_out
  /\ pool_log' = IF pool_fresh /\ Len(pool_log) <= Pow2(PoolSizeLog2)
                  THEN Append(pool_log, pool_ret'.value) ELSE pool_log
  /\ UNCHANGED <<pool_wf, pool_fresh>>
  /\ UNCHANGED <<appVars, cqVars, ctxVars>>

\* release(h) for any slot of the pool, outstanding or not.
PoolReleaseStep(h) ==
  /\ objpool' = ObjpoolAfterRelease(objpool, h)
  /\ pool_ret' = [op |-> "release", ok |-> ObjpoolReleased(objpool), value |-> h]
  /\ pool_out' = [pool_out EXCEPT ![h] = IF @ > 0 THEN @ - 1 ELSE @]
  /\ pool_wf' = (pool_wf /\ pool_out[h] > 0)
  /\ pool_fresh' = FALSE
  /\ UNCHANGED pool_log
  /\ UNCHANGED <<appVars, cqVars, ctxVars>>

PoolNext ==
  \/ PoolAcquireStep
  \/ \E h \in Slots : PoolReleaseStep(h)

SpecPool == Init /\ [][PoolNext]_vars

(***************************************************************************)
(* Properties.                                                             *)
(***************************************************************************)
\* The run in progress has processed its last event and is about to return.
RunDone == pc = "run" /\ (remaining = 0 \/ CqIsEmpty(event_queue))

\* The same, for a run entered from app_tick.
TickDone == RunDone /\ tick_time >= 0

\* The handles the run in progress has popped, in order.
LogEvents == [i \in 1..Len(run_log) |-> run_log[i].ev]

\* How often the run in progress has invoked the closure of event e.
InvokedCount(e) == Cardinality({i \in 1..Len(run_log) : run_log[i].ev = e /\ run_log[i].invoked})

DueOf(e) == events[e].due_time

\* C2: the timer list is sorted by non-decreasing due_time in every state the
\* scheduler reaches by run_later, run_at_intervals, update_timer, manage_timers
\* and run.
C2_TimerListSorted ==
  \A i \in 1..Len(timer_list), j \in 1..Len(timer_list) : i < j => DueOf(timer_list[i]) <= DueOf(timer_list[j])

\* A tick has just run manage_timers: a recurring timer that had been rescheduled
\* was put in front of a timer that stays in the list, and was collected.
C2_Witness ==
  /\ pc = "run" /\ tick_sched /\ run_log = <<>>
  /\ tick_due # <<>> /\ timer_list # <<>>
  /\ fired[tick_due[1]] >= 1
  /\ DueOf(tick_due[1]) < DueOf(timer_list[1])

\* The first due time of timer e as the documentation defines it, and the due time
\* of its k-th invocation (k = 1, 2, ...).
FirstDue(e) == IF events[e].immediate THEN born[e] ELSE born[e] + events[e].period

KthDue(e, k) == FirstDue(e) + (k - 1) * events[e].period

IsTimer(e) == events[e].kind = "TIMER"

IsRecurringTimer(e) == IsTimer(e) /\ events[e].repeating

IsOneShotTimer(e) == IsTimer(e) /\ ~events[e].repeating

\* The closure of timer e is being invoked.
Dispatching(e) == pc = "closure" /\ cur = e /\ IsTimer(e)

\* C3, as stated: a one-shot timer is not invoked before its due time, is invoked
\* exactly once by the first tick whose scheduler step observes a timer counter
\* at or past the due time, and never again.
C3_Original ==
  /\ \A e \in Events : (Dispatching(e) /\ IsOneShotTimer(e)) => (DueOf(e) <= timer /\ fired[e] = 1)
  /\ (TickDone /\ tick_sched) =>
        \A i \in 1..Len(tick_due) : IsOneShotTimer(tick_due[i]) => InvokedCount(tick_due[i]) = 1

\* C4, as stated: by the end of the tick that observes the time, a recurring timer
\* has delivered every period that has elapsed (its next due time lies ahead).
C4_Original ==
  (TickDone /\ tick_sched) =>
    \A i \in 1..Len(tick_due) : IsRecurringTimer(tick_due[i]) => DueOf(tick_due[i]) > tick_time

\* C4, amended: one run invokes a timer at most once, however many periods have
\* elapsed, and the number of invocations never exceeds the number of due times
\* that have elapsed.
C4_OncePerTick ==
  /\ \A e \in Events : IsTimer(e) => InvokedCount(e) <= 1
  /\ \A e \in Events : (IsRecurringTimer(e) /\ fired[e] >= 1) => KthDue(e, fired[e]) <= timer

\* A tick found more than one period of a recurring timer elapsed and invoked it once.
C4_Witness ==
  /\ TickDone /\ tick_sched
  /\ \E i \in 1..Len(tick_due) :
        /\ IsRecurringTimer(tick_due[i])
        /\ InvokedCount(tick_due[i]) = 1
        /\ DueOf(tick_due[i]) <= tick_time

\* C5, as stated: the timer counter observed when a recurring timer is dispatched
\* for the k-th time is its k-th due time.
C5_Original ==
  \A e \in Events : (Dispatching(e) /\ IsRecurringTimer(e)) => timer = KthDue(e, fired[e])

\* C5, amended: the due time of a recurring timer at its k-th dispatch is its k-th
\* due time, first due time plus k - 1 periods; the timer counter observed
\* then is at or past it.
C5_DueTimesDoNotDrift ==
  \A e \in Events : (Dispatching(e) /\ IsRecurringTimer(e)) =>
    (DueOf(e) = KthDue(e, fired[e]) /\ timer >= DueOf(e))

\* A recurring timer is dispatched late for the second time.
C5_Witness ==
  \E e \in Events : Dispatching(e) /\ IsRecurringTimer(e) /\ fired[e] = 2 /\ timer > DueOf(e)

C7_ImmediateFirstThenFullPeriods ==
  /\ \A e \in Events : (IsTimer(e) /\ events[e].immediate /\ fired[e] = 0) => InSeq(e, event_queue)
  /\ TickDone =>
        /\ Len(run_log) = Len(run_snapshot)
        /\ \A i \in 1..Len(run_log) : run_log[i].kind = "TIMER" => run_log[i].invoked
  /\ \A e \in Events : Dispatching(e) =>
        timer >= born[e] + (IF events[e].immediate THEN fired[e] - 1 ELSE fired[e]) * events[e].period

\* A tick invokes an immediate timer for the first time while the timer counter
\* still has the value it had when the timer was scheduled.
C7_Witness ==
  \E e \in Events :
    /\ Dispatching(e) /\ events[e].immediate /\ fired[e] = 1
    /\ tick_time >= 0 /\ timer = born[e]

\* C8, as stated: a timer that is due when the scheduler step of a tick observes
\* the timer counter is invoked in that same tick.
C8_Original ==
  (TickDone /\ tick_sched) => \A i \in 1..Len(tick_due) : InvokedCount(tick_due[i]) >= 1

InvokedTotal == Cardinality({i \in 1..Len(run_log) : run_log[i].invoked})

\* The last n handles of a queue.
CqLast(q, n) == SubSeq(q, Len(q) - n + 1, Len(q))

Before(seq, a, b) == \E i \in 1..Len(seq), j \in 1..Len(seq) : i < j /\ seq[i] = a /\ seq[j] = b

\* The handles a step has added at the end of the event queue.
NewlyQueued == SubSeq(event_queue', Len(event_queue) + 1, Len(event_queue'))

\* C11: manage_timers keeps timers of equal due time in insertion order: of two
\* timers with the same due time, the one that was in the timer list first, or
\* that was pushed to the schedule queue first, comes first in the events
\* delivered to the event queue followed by the timers left in the list.
C11_EqualDueKeepInsertionOrder ==
  [][(ManageTimers \/ (AppTick /\ TickRunsScheduler)) =>
       LET old == timer_list \o schedule_queue
           new == NewlyQueued \o timer_list'
       IN \A a \in Events, b \in Events :
            (DueOf(a) = DueOf(b) /\ Before(old, a, b) /\ InSeq(a, new) /\ InSeq(b, new))
              => Before(new, a, b)]_vars

\* A tick has just delivered two timers of equal due time, a rescheduled
\* recurring timer among them.
C11_Witness ==
  /\ pc = "run" /\ tick_sched /\ run_log = <<>>
  /\ Len(tick_due) = 2 /\ event_queue = tick_due
  /\ DueOf(tick_due[1]) = DueOf(tick_due[2])
  /\ fired[tick_due[1]] + fired[tick_due[2]] >= 1

\* The scheduler step of a tick has just returned.
TickManaged == pc = "run" /\ tick_sched /\ run_log = <<>>

\* C12, as stated: when manage_timers has returned, every timer that was due has
\* been detached and pushed to the event queue in list order, every timer left
\* in the list is due later than the timer counter, and no timer that is not
\* yet due has been pushed.
C12_Original ==
  TickManaged =>
    /\ Len(tick_due) <= Len(run_snapshot)
    /\ CqLast(run_snapshot, Len(tick_due)) = tick_due
    /\ \A i \in 1..Len(timer_list) : DueOf(timer_list[i]) > tick_time
    /\ \A i \in 1..Len(tick_due) : DueOf(tick_due[i]) <= tick_time

\* The slots in the free queue of a pool.
FreeSet(pool) == {pool[i] : i \in 1..Len(pool)}

\* A pool holds the same free slots, as many of them, as before the step.
SamePool(before, after) == FreeSet(after) = FreeSet(before) /\ Len(after) = Len(before)

\* C13: enqueue_closure returns none exactly when the event pool is depleted or
\* the event queue is full, and then leaves the event queue, the free slots of
\* the event pool and the events as they were; otherwise it returns the event it
\* has taken from the pool and pushed to the end of the event queue.
C13_EnqueueClosureFailsClean ==
  [][\A c \in Closures : EvloopEnqueueClosure(c) =>
       /\ (ret' = NoHandle) <=> (PoolIsEmpty(event_pool) \/ CqIsFull(event_queue, EventQueueSize))
       /\ (ret' = NoHandle) =>
             /\ event_queue' = event_queue
             /\ SamePool(event_pool, event_pool')
             /\ events' = events
       /\ (ret' # NoHandle) =>
             /\ ret' = PoolAcquire(event_pool)
             /\ event_queue' = Append(event_queue, ret')
             /\ Len(event_pool') = Len(event_pool) - 1]_vars

\* enqueue_closure has just returned none because the event queue is full, with
\* an event and a node still free in the pools.
C13_Witness ==
  /\ ret = NoHandle /\ pc = "idle"
  /\ CqIsFull(event_queue, EventQueueSize)
  /\ ~PoolIsEmpty(event_pool) /\ ~PoolIsEmpty(llist_node_pool)

\* The call SchCreateTimer(period, repeating, immediate, closure) finds no event,
\* no list node, or no room in the queue the new timer goes to.
TimerCallExhausted(immediate) ==
  \/ PoolIsEmpty(event_pool)
  \/ PoolIsEmpty(llist_node_pool)
  \/ IF immediate THEN CqIsFull(event_queue, EventQueueSize) ELSE CqIsFull(schedule_queue, ScheduleQueueSize)

\* What a timer call must do: return none exactly on exhaustion, leaving the
\* free slots of both pools, both queues, the timer list and the events as they
\* were; otherwise return the event taken from the pool.
TimerCallContract(immediate) ==
  /\ (ret' = NoHandle) <=> TimerCallExhausted(immediate)
  /\ (ret' = NoHandle) =>
        /\ SamePool(event_pool, event_pool')
        /\ SamePool(llist_node_pool, llist_node_pool')
        /\ event_queue' = event_queue
        /\ schedule_queue' = schedule_queue
        /\ timer_list' = timer_list
        /\ events' = events
  /\ (ret' # NoHandle) =>
        /\ ret' = PoolAcquire(event_pool)
        /\ Len(event_pool') = Len(event_pool) - 1
        /\ Len(llist_node_pool') = Len(llist_node_pool) - 1

\* C14: run_later and run_at_intervals return none exactly when the event pool
\* or the node pool is depleted or the target queue is full, and a failed call
\* leaves the free slots of both pools, both queues and the timer list as they
\* were.
C14_TimerCallsFailClean ==
  [][/\ \A d \in Periods, c \in Closures : SchRunLater(d, c) => TimerCallContract(FALSE)
     /\ \A p \in Periods \ {0}, i \in BOOLEAN, c \in Closures :
           SchRunAtIntervals(p, i, c) => TimerCallContract(i)]_vars

\* A timer call has just returned none because the schedule queue is full, with
\* an event and a node free and room in the event queue (where enqueue_closure
\* would have succeeded).
C14_Witness ==
  /\ ret = NoHandle /\ pc = "idle"
  /\ CqIsFull(schedule_queue, ScheduleQueueSize)
  /\ ~CqIsFull(event_queue, EventQueueSize)
  /\ Len(event_pool) = EventPoolSize - 1 /\ Len(llist_node_pool) = NodePoolSize - 1

\* A one-shot event: a closure event, a timer that does not repeat, a listener
\* registered with listen_once.
IsOneShotEvent(e) ==
  \/ events[e].kind = "CLOSURE"
  \/ IsOneShotTimer(e)
  \/ (events[e].kind = "SIGNAL_LISTENER" /\ ~events[e].recurring)

\* C15, as stated: a one-shot event is released exactly once: whenever run
\* releases one, after its closure has returned or, for a listener that no longer
\* listens, when it is popped, the event is not already free in the event pool,
\* and after its closure has returned it is free.
C15_Original ==
  [][/\ (RunPop /\ ~InvokesClosure(events[CqPeek(event_queue)]) /\ IsOneShotEvent(CqPeek(event_queue)))
          => CqPeek(event_queue) \notin FreeSet(event_pool)
     /\ (ClosureReturn /\ IsOneShotEvent(cur))
          => (cur \notin FreeSet(event_pool) /\ cur \in FreeSet(event_pool'))]_vars

\* Event e is in queue (or list) `after` and was not in `before`.
Enters(e, before, after) == ~InSeq(e, before) /\ InSeq(e, after)

\* A timer call of this step succeeded and returned a new timer event.
TimerCreated(e) == ret' = e /\ e # NoHandle /\ e \in FreeSet(event_pool) /\ events'[e].kind = "TIMER"

\* The steps that run manage_timers.
ManageStep == ManageTimers \/ (AppTick /\ TickRunsScheduler)

\* Lifecycle edges every timer keeps: the timer list is entered from the schedule
\* queue by manage_timers, the schedule queue by a new timer or by the repeating
\* timer whose closure has just returned, a repeating timer is never released and
\* a one-shot timer is released when its closure has returned.
TimerLifecycleEdges(e) ==
  /\ (Enters(e, timer_list, timer_list') /\ events'[e].kind = "TIMER")
       => (InSeq(e, schedule_queue) /\ ManageStep)
  /\ (Enters(e, schedule_queue, schedule_queue') /\ events'[e].kind = "TIMER")
       => \/ TimerCreated(e)
          \/ (ClosureReturn /\ cur = e /\ events[e].repeating)
  /\ (IsTimer(e) /\ e \notin FreeSet(event_pool) /\ e \in FreeSet(event_pool'))
       => (~events[e].repeating /\ ClosureReturn /\ cur = e)

\* C16, as stated: every new timer is pushed to the schedule queue, a timer
\* enters the event queue only from the timer list or, within one manage_timers,
\* from the schedule queue through the timer list, and the other lifecycle edges
\* hold.
C16_Original ==
  [][\A e \in Events :
       /\ TimerCreated(e) => InSeq(e, schedule_queue')
       /\ (Enters(e, event_queue, event_queue') /\ events'[e].kind = "TIMER")
            => (InSeq(e, timer_list \o schedule_queue) /\ ManageStep)
       /\ TimerLifecycleEdges(e)]_vars

\* C16, corrected: a new timer with immediate = false is pushed to the schedule
\* queue and one with immediate = true to the event queue; a timer enters the
\* event queue either on that immediate creation or from the timer list in
\* manage_timers; the other lifecycle edges hold, a repeating timer is never
\* released.
C16_ImmediateSkipsScheduleQueue ==
  [][\A e \in Events :
       /\ TimerCreated(e) =>
            IF events'[e].immediate
            THEN InSeq(e, event_queue') /\ ~InSeq(e, schedule_queue')
            ELSE InSeq(e, schedule_queue') /\ ~InSeq(e, event_queue')
       /\ (Enters(e, event_queue, event_queue') /\ events'[e].kind = "TIMER")
            => \/ (TimerCreated(e) /\ events'[e].immediate)
               \/ (InSeq(e, timer_list \o schedule_queue) /\ ManageStep)
       /\ TimerLifecycleEdges(e)]_vars

\* A repeating immediate timer that has fired once and is back in the schedule
\* queue: it went new -> event queue -> running -> schedule queue.
C16_Witness ==
  \E e \in Events :
    /\ IsTimer(e) /\ events[e].immediate /\ events[e].repeating
    /\ fired[e] = 1
    /\ InSeq(e, schedule_queue)
    /\ pc = "idle"

\* The call of this step changed the event-queue count by dEq and the
\* schedule-queue count by dSq.
QueueCountsChange(dEq, dSq) ==
  /\ Len(event_queue') = Len(event_queue) + dEq
  /\ Len(schedule_queue') = Len(schedule_queue) + dSq

\* C17: a call that returns a handle adds exactly one event to its queue and
\* none to the other one: enqueue_closure to the event queue, run_later and
\* run_at_intervals with immediate = false to the schedule queue,
\* run_at_intervals with immediate = true to the event queue; a call that
\* returns no handle adds nothing.
C17_QueueRouting ==
  [][/\ \A c \in Closures :
          EvloopEnqueueClosure(c) =>
            IF ret' # NoHandle THEN QueueCountsChange(1, 0) ELSE QueueCountsChange(0, 0)
     /\ \A d \in Periods, c \in Closures :
          SchRunLater(d, c) =>
            IF ret' # NoHandle THEN QueueCountsChange(0, 1) ELSE QueueCountsChange(0, 0)
     /\ \A p \in Periods \ {0}, c \in Closures :
          /\ SchRunAtIntervals(p, FALSE, c) =>
               IF ret' # NoHandle THEN QueueCountsChange(0, 1) ELSE QueueCountsChange(0, 0)
          /\ SchRunAtIntervals(p, TRUE, c) =>
               IF ret' # NoHandle THEN QueueCountsChange(1, 0) ELSE QueueCountsChange(0, 0)]_vars

\* The state of the application test after its calls: a closure event and an
\* immediate timer, the call that has just returned, in the event queue and a
\* timer that is not immediate in the schedule queue.
C17_Witness ==
  /\ pc = "idle"
  /\ ret # NoHandle
  /\ Len(event_queue) = 2
  /\ events[event_queue[1]].kind = "CLOSURE"
  /\ event_queue[2] = ret
  /\ IsTimer(ret) /\ events[ret].immediate
  /\ Len(schedule_queue) = 1
  /\ IsTimer(schedule_queue[1]) /\ ~events[schedule_queue[1]].immediate

\* Event e has no node in any listener list.
Detached(e, sv) == \A s \in DOMAIN sv : ListWithout(sv[s], e) = sv[s]

\* C18, as stated: when run pops a listener that was unlistened after emit had
\* pushed it, it does not invoke the listener's closure and, once the listener
\* has been dispatched, its node is no longer in a listener list.
C18_Original ==
  [][(RunPop /\ events[CqPeek(event_queue)].kind = "SIGNAL_LISTENER" /\ ~events[CqPeek(event_queue)].listening)
       => (pc' = "run" /\ Detached(CqPeek(event_queue), signal_vector'))]_vars

\* Event e is a listener registered with listen_once.
IsOnceListener(e) == events[e].kind = "SIGNAL_LISTENER" /\ ~events[e].recurring

Occurrences(e, q) == Cardinality({i \in 1..Len(q) : q[i] = e})

\* Event e is a recurring listener that still listens.
IsRecurringListening(e) ==
  events[e].kind = "SIGNAL_LISTENER" /\ events[e].recurring /\ events[e].listening

\* The recurring listeners that listen to signal s.
ListenersOf(s) == {e \in Events : IsRecurringListening(e) /\ ~Detached(e, [t \in {s} |-> signal_vector[s]])}

\* C20, as stated: emit(s, p) invokes nothing itself; it queues one invocation of
\* every recurring listener that listens to s, which stays registered and whose
\* invocation receives p; it queues no listener of another signal; and the
\* invocations already queued by earlier emits still receive the parameters of
\* those emits (the closure is invoked with the parameter its event holds when
\* run pops it).
C20_Original ==
  [][\A s \in WideSignals, p \in Params :
       SignalEmit(s, p) =>
         /\ pc' = pc /\ cur' = cur /\ run_log' = run_log
         /\ \A e \in Events :
              /\ e \in ListenersOf(s) =>
                   /\ events'[e].params = p
                   /\ ~Detached(e, signal_vector')
                   /\ (Len(event_queue) + Cardinality(ListenersOf(s)) <= EventQueueSize)
                        => Occurrences(e, event_queue') = Occurrences(e, event_queue) + 1
              /\ e \notin ListenersOf(s) => Occurrences(e, event_queue') = Occurrences(e, event_queue)
              /\ (IsRecurringListening(e) /\ InSeq(e, event_queue)) => events'[e].params = events[e].params]_vars

\* The events of the listeners of a listener list that still listen, in list order.
ListeningIn(list) ==
  LET l == SelectSeq(list, LAMBDA x : events[x.value].listening)
  IN [i \in 1..Len(l) |-> l[i].value]

\* The first n elements of a sequence, all of them if it is shorter.
Prefix(seq, n) == SubSeq(seq, 1, IF n < Len(seq) THEN n ELSE Len(seq))

\* C21: a successful listen or listen_once puts the new listener behind the
\* listeners already registered for the signal, and one emit pushes the
\* listening listeners of the signal to the tail of the event queue in the order
\* of the listener list, as many as the queue has room for; run invokes in
\* queue order, so the oldest subscriber runs first.
C21_EmitInRegistrationOrder ==
  [][/\ \A s \in Signals, c \in Closures, r \in BOOLEAN :
          (SignalListenWith(s, c, r) /\ ret' # NoHandle)
            => /\ Len(signal_vector'[s]) = Len(signal_vector[s]) + 1
               /\ SubSeq(signal_vector'[s], 1, Len(signal_vector[s])) = signal_vector[s]
               /\ signal_vector'[s][Len(signal_vector'[s])].value = ret'
     /\ \A s \in Signals :
          SignalEmit(s, NoParam)
            => event_queue' = event_queue \o Prefix(ListeningIn(signal_vector[s]),
                                                     EventQueueSize - Len(event_queue))]_vars

\* listen(0, A), listen(0, B), emit(0), run: the run is over and has invoked A,
\* the older listener, and then B.
C21_Witness ==
  /\ RunDone
  /\ Len(run_log) = 2
  /\ run_log[1].invoked /\ run_log[2].invoked
  /\ run_log[1].ev # run_log[2].ev
  /\ Len(signal_vector[0]) = 2
  /\ signal_vector[0][1].value = run_log[1].ev
  /\ signal_vector[0][2].value = run_log[2].ev
  /\ events[run_log[1].ev].recurring /\ events[run_log[2].ev].recurring
  /\ run_snapshot = LogEvents

CqueueCapacity == Pow2(CqueueSizeLog2)

\* C23: the circular queue is a bounded FIFO of capacity 2^k. Its contents, read
\* from head over count slots, are the values pushed successfully and not yet
\* popped, in push order, and count is their number; push succeeds exactly when
\* fewer than 2^k values are held and then appends, as the push of the bounded
\* sequence does; pop returns the oldest of them and removes it, and none on an
\* empty queue; peek returns what pop would return and changes nothing.
C23_QueueIsBoundedFifo ==
  [][/\ CqueueContents(cq') = cq_fifo'
     /\ CqueueCount(cq') = Len(cq_fifo')
     /\ Len(cq_fifo') <= CqueueCapacity
     /\ \A h \in Values :
          QueuePush(h) => /\ cq_ret'.ok = (Len(cq_fifo) < CqueueCapacity)
                          /\ cq_fifo' = CqPush(cq_fifo, CqueueCapacity, h)
     /\ QueuePop => /\ cq_ret'.value = CqPeek(cq_fifo)
                     /\ cq_ret'.ok = (cq_fifo # <<>>)
                     /\ CqueueContents(cq') = CqPop(cq_fifo)
     /\ QueuePeek => /\ cq_ret'.value = CqPeek(cq_fifo)
                      /\ cq' = cq]_vars

\* A pop has just returned the oldest value of a queue whose indices have
\* wrapped around the end of the buffer: tail is behind head and the values
\* still held straddle the end of the buffer.
C23_Witness ==
  /\ cq_ret.op = "pop" /\ cq_ret.ok
  /\ cq.count >= 2
  /\ cq.tail < cq.head
  /\ cq.tail > 0
  /\ cq_fifo[1] # cq_fifo[2]

\* C24: push on a full queue returns false and changes nothing: buffer, head,
\* tail and count are as before, so the values the next pops return, the
\* contents read from head, are the ones stored before, in the same order.
C24_PushOnFullHasNoEffect ==
  [][\A h \in Values :
       (QueuePush(h) /\ CqueueIsFull(cq))
         => /\ ~cq_ret'.ok
            /\ cq' = cq
            /\ CqueueContents(cq') = cq_fifo
            /\ cq_fifo' = cq_fifo]_vars

\* A push of a value that the full queue does not hold has just failed, on a
\* queue whose head is not at the start of the buffer.
C24_Witness ==
  /\ cq_ret.op = "push" /\ ~cq_ret.ok
  /\ CqueueIsFull(cq)
  /\ cq.head > 0
  /\ ~InSeq(cq_ret.value, cq_fifo)

\* The capacity of the object pool taken on its own.
PoolCapacity == Pow2(PoolSizeLog2)

\* The number of slots that are outstanding.
RECURSIVE OutstandingUpTo(_)
OutstandingUpTo(n) == IF n = 0 THEN 0 ELSE pool_out[n] + OutstandingUpTo(n - 1)

Outstanding == OutstandingUpTo(PoolCapacity)

\* C25: as long as every release gives back an outstanding slot, at most N slots
\* are outstanding, no slot is held by two owners, a slot is either outstanding
\* or in the free queue (once), and is_empty holds exactly when N slots are
\* outstanding.
C25_PoolConservation ==
  pool_wf =>
    /\ Outstanding <= PoolCapacity
    /\ \A h \in Slots : pool_out[h] <= 1
    /\ \A h \in Slots : pool_out[h] + Occurrences(h, CqueueContents(objpool.queue)) = 1
    /\ ObjpoolIsEmpty(objpool) <=> (Outstanding = PoolCapacity)

\* After releases and further acquires, all N slots are outstanding again and
\* the last acquire handed out a slot other than the last of the slot order.
C25_Witness ==
  /\ pool_wf /\ ~pool_fresh
  /\ pool_ret.op = "acquire" /\ pool_ret.ok
  /\ pool_ret.value # PoolCapacity
  /\ Outstanding = PoolCapacity
  /\ ObjpoolIsEmpty(objpool)

\* The slot order followed by none: what acquires return on a fresh pool.
SlotOrderThenNone == [i \in 1..(PoolCapacity + 1) |-> IF i <= PoolCapacity THEN i ELSE NoHandle]

\* C26: the acquires made on a freshly initialised pool return slots 1..N in
\* slot order, each once, and then none; an acquire on a depleted pool returns
\* none and changes nothing; the acquire that follows a release succeeds and
\* returns a slot, the released one if the pool was depleted before the release.
C26_FreshPoolHandsOutInOrder ==
  [][/\ pool_log' = Prefix(SlotOrderThenNone, Len(pool_log'))
     /\ (PoolAcquireStep /\ ObjpoolIsEmpty(objpool))
          => (pool_ret'.value = NoHandle /\ ~pool_ret'.ok /\ objpool' = objpool)
     /\ (PoolAcquireStep /\ pool_ret.op = "release" /\ pool_ret.ok)
          => /\ pool_ret'.ok /\ pool_ret'.value \in Slots
             /\ CqueueCount(objpool.queue) = 1 => pool_ret'.value = pool_ret.value]_vars

\* The fresh pool has handed out its N slots and refused one more acquire; a
\* slot was then released and the acquire that followed returned it.
C26_Witness ==
  /\ pool_log = SlotOrderThenNone
  /\ pool_wf
  /\ pool_ret.op = "acquire" /\ pool_ret.ok
  /\ ObjpoolIsEmpty(objpool)
  /\ ~pool_fresh

\* C27: release returns false exactly when the free queue is already full, and
\* then leaves the pool unchanged; in every other case it returns true and
\* appends the handle to the free queue, whether or not the slot was
\* outstanding.
C27_ReleaseFailsOnlyWhenFull ==
  [][\A h \in Slots :
       PoolReleaseStep(h) =>
         /\ pool_ret'.ok = ~CqueueIsFull(objpool.queue)
         /\ ~pool_ret'.ok => objpool' = objpool
         /\ pool_ret'.ok => CqueueContents(objpool'.queue) = Append(CqueueContents(objpool.queue), h)]_vars

\* A double release that went undetected: the release just made returned true
\* for a slot that was not outstanding, while another slot is outstanding, and
\* the slot is now twice in the free queue.
C27_Witness ==
  /\ pool_ret.op = "release" /\ pool_ret.ok
  /\ ~pool_wf
  /\ Occurrences(pool_ret.value, CqueueContents(objpool.queue)) = 2
  /\ \E h \in Slots : h # pool_ret.value /\ pool_out[h] = 1
                        /\ Occurrences(h, CqueueContents(objpool.queue)) = 0

\* C29: a run pops no more events than the event queue held when it was
\* entered, and every run that has been entered returns to its caller, also
\* when the closures it invokes enqueue closures or emit signals.
C29_RunTerminates ==
  /\ [](Len(run_log) <= Len(run_snapshot))
  /\ (pc # "idle") ~> (pc = "idle")

\* A run in which an invoked closure has pushed an event has processed its
\* snapshot: it is about to return although the event queue is not empty.
C29_Witness ==
  /\ RunDone
  /\ remaining = 0
  /\ Len(run_log) = EventQueueSize
  /\ InvokedTotal = EventQueueSize
  /\ run_pushed # <<>>
  /\ ~CqIsEmpty(event_queue)

\* The number of nodes of the listener lists that point to event e.
RECURSIVE NodesUpTo(_, _)
NodesUpTo(e, n) ==
  IF n < 0 THEN 0
  ELSE Len(SelectSeq(signal_vector[n], LAMBDA x : x.value = e)) + NodesUpTo(e, n - 1)

ListenerNodes(e) == NodesUpTo(e, Cardinality(DOMAIN signal_vector) - 1)

\* In how many places event e is held: schedule queue, event queue, timer list
\* and listener lists.
Places(e) ==
  Occurrences(e, schedule_queue) + Occurrences(e, event_queue) + Occurrences(e, timer_list)
    + ListenerNodes(e)

\* C30: in every reachable state each event handle occurs at most once in
\* total across the schedule queue, the event queue, the timer list and the
\* listener lists.
C30_Original == \A e \in Events : Places(e) <= 1

(***************************************************************************)
(* Critical sections.  The containers wrap every operation on a system     *)
(* queue or a system pool in UEVLOOP_CRITICAL_ENTER / UEVLOOP_CRITICAL_EXIT.*)
(* An operation is a read-modify-write of the structure: it reads the      *)
(* structure on entry and writes it back, updated, on exit.  Two contexts  *)
(* share one system queue and the event pool: an ISR that enqueues events  *)
(* (acquire a slot, push it), and the main context, which may enqueue as   *)
(* well and is the only one to pop the queue, to keep the popped timers in *)
(* the timer list and to release them once they have run.                  *)
(***************************************************************************)
Contexts == {"main", "isr"}

NoSnapshot == CqueueInit(CqueueSizeLog2)

\* The default critical section, a no-op: it never keeps a context out.
LockIgnored(l) == TRUE

\* A critical section that provides mutual exclusion can be entered only
\* while no context is inside.
LockIsFree(l) == l = "none"

CriticalEnter(c) == /\ LockIsFree(lock)
                    /\ lock' = c

CriticalExit(c) == lock' = "none"

\* Everything of the application but the timer counter and the timer list.
appRest == <<run_scheduler, events, event_pool, llist_node_pool, event_queue, schedule_queue,
             signal_vector, pc, remaining, cur, calls,
             run_snapshot, run_log, run_pushed, eq_order, fired, born, tick_time, tick_due, tick_sched, ret>>

structVars == <<cq_fifo, cq_ret, pool_out, pool_ret, pool_wf, pool_fresh, pool_log>>

\* update_timer from the ISR: one store to the timer counter.
IsrUpdateTimer(new_time) ==
  /\ new_time > timer
  /\ SchUpdateTimer(new_time)
  /\ UNCHANGED <<timer_list, appRest, cq, objpool, structVars, ctxVars>>

\* syspools acquire, entry: inside the critical section the free queue is read.
AcquireBegin(c) ==
  /\ ctx_pc[c] = "idle"
  /\ CriticalEnter(c)
  /\ ctx_pc' = [ctx_pc EXCEPT ![c] = "acquire"]
  /\ ctx_reg' = [ctx_reg EXCEPT ![c] = objpool.queue]
  /\ UNCHANGED <<appVars, cq, objpool, structVars, ctx_h>>

\* syspools acquire, exit: the slot is taken and the free queue written back.
AcquireEnd(c) ==
  /\ ctx_pc[c] = "acquire"
  /\ LET p == [queue |-> ctx_reg[c]]
         h == ObjpoolAcquire(p)
     IN /\ objpool' = ObjpoolAfterAcquire(p)
        /\ ctx_h' = [ctx_h EXCEPT ![c] = h]
        /\ ctx_pc' = [ctx_pc EXCEPT ![c] = IF h = NoHandle THEN "idle" ELSE "acquired"]
  /\ ctx_reg' = [ctx_reg EXCEPT ![c] = NoSnapshot]
  /\ CriticalExit(c)
  /\ UNCHANGED <<appVars, cq, structVars>>

\* sysqueues push, entry.
PushBegin(c) ==
  /\ ctx_pc[c] = "acquired"
  /\ CriticalEnter(c)
  /\ ctx_pc' = [ctx_pc EXCEPT ![c] = "push"]
  /\ ctx_reg' = [ctx_reg EXCEPT ![c] = cq]
  /\ UNCHANGED <<appVars, cq, objpool, structVars, ctx_h>>

\* sysqueues push, exit: on a full queue nothing is written and the caller
\* is left with the slot, which it releases.
PushEnd(c) ==
  /\ ctx_pc[c] = "push"
  /\ IF CqueueIsFull(ctx_reg[c])
     THEN /\ UNCHANGED <<cq, ctx_h>>
          /\ ctx_pc' = [ctx_pc EXCEPT ![c] = "spent"]
     ELSE /\ cq' = CqueuePush(ctx_reg[c], ctx_h[c])
          /\ ctx_h' = [ctx_h EXCEPT ![c] = NoHandle]
          /\ ctx_pc' = [ctx_pc EXCEPT ![c] = "idle"]
  /\ ctx_reg' = [ctx_reg EXCEPT ![c] = NoSnapshot]
  /\ CriticalExit(c)
  /\ UNCHANGED <<appVars, objpool, structVars>>

\* sysqueues pop, entry; only the main context pops.
PopBegin(c) ==
  /\ c = "main"
  /\ ctx_pc[c] = "idle"
  /\ CriticalEnter(c)
  /\ ctx_pc' = [ctx_pc EXCEPT ![c] = "pop"]
  /\ ctx_reg' = [ctx_reg EXCEPT ![c] = cq]
  /\ UNCHANGED <<appVars, cq, objpool, structVars, ctx_h>>

\* sysqueues pop, exit.
PopEnd(c) ==
  /\ ctx_pc[c] = "pop"
  /\ LET h == CqueuePeek(ctx_reg[c])
     IN /\ cq' = CqueuePop(ctx_reg[c])
        /\ ctx_h' = [ctx_h EXCEPT ![c] = h]
        /\ ctx_pc' = [ctx_pc EXCEPT ![c] = IF h = NoHandle THEN "idle" ELSE "popped"]
  /\ ctx_reg' = [ctx_reg EXCEPT ![c] = NoSnapshot]
  /\ CriticalExit(c)
  /\ UNCHANGED <<appVars, objpool, structVars>>

\* manage_timers keeps the popped timer in the timer list; no critical section.
MainListInsert ==
  /\ ctx_pc["main"] = "popped"
  /\ timer_list' = Append(timer_list, ctx_h["main"])
  /\ ctx_h' = [ctx_h EXCEPT !["main"] = NoHandle]
  /\ ctx_pc' = [ctx_pc EXCEPT !["main"] = "idle"]
  /\ UNCHANGED <<timer, appRest, cq, objpool, structVars, lock, ctx_reg>>

\* The head of the timer list is detached to run; no critical section.
MainListDetach ==
  /\ ctx_pc["main"] = "idle"
  /\ timer_list # <<>>
  /\ ctx_h' = [ctx_h EXCEPT !["main"] = Head(timer_list)]
  /\ timer_list' = Tail(timer_list)
  /\ ctx_pc' = [ctx_pc EXCEPT !["main"] = "spent"]
  /\ UNCHANGED <<timer, appRest, cq, objpool, structVars, lock, ctx_reg>>

\* syspools release, entry.
ReleaseBegin(c) ==
  /\ ctx_pc[c] = "spent"
  /\ CriticalEnter(c)
  /\ ctx_pc' = [ctx_pc EXCEPT ![c] = "release"]
  /\ ctx_reg' = [ctx_reg EXCEPT ![c] = objpool.queue]
  /\ UNCHANGED <<appVars, cq, objpool, structVars, ctx_h>>

\* syspools release, exit.
ReleaseEnd(c) ==
  /\ ctx_pc[c] = "release"
  /\ objpool' = ObjpoolAfterRelease([queue |-> ctx_reg[c]], ctx_h[c])
  /\ ctx_h' = [ctx_h EXCEPT ![c] = NoHandle]
  /\ ctx_pc' = [ctx_pc EXCEPT ![c] = "idle"]
  /\ ctx_reg' = [ctx_reg EXCEPT ![c] = NoSnapshot]
  /\ CriticalExit(c)
  /\ UNCHANGED <<appVars, cq, structVars>>

IsrNext ==
  \/ \E t \in Times : IsrUpdateTimer(t)
  \/ \E c \in Contexts : AcquireBegin(c)
  \/ \E c \in Contexts : AcquireEnd(c)
  \/ \E c \in Contexts : PushBegin(c)
  \/ \E c \in Contexts : PushEnd(c)
  \/ \E c \in Contexts : PopBegin(c)
  \/ \E c \in Contexts : PopEnd(c)
  \/ MainListInsert
  \/ MainListDetach
  \/ \E c \in Contexts : ReleaseBegin(c)
  \/ \E c \in Contexts : ReleaseEnd(c)

SpecIsr == Init /\ [][IsrNext]_vars

\* In how many places slot h is: the pool's free queue, the system queue, the
\* timer list and the hands of the contexts.
Holders(h) ==
  Occurrences(h, CqueueContents(objpool.queue)) + Occurrences(h, CqueueContents(cq))
    + Occurrences(h, timer_list) + Cardinality({c \in Contexts : ctx_h[c] = h})

\* The ISR context took no part in the step.
IsrIdle == UNCHANGED <<ctx_pc["isr"], ctx_reg["isr"], ctx_h["isr"]>>

RefersToListenerOf(x, i) ==
  \/ events[x.value].kind = "SIGNAL_LISTENER" /\ events[x.value].signal_id = i
  \/ events[x.value].kind = "NONE"

\* C31: in every reachable state every node of listener list i refers to a
\* SIGNAL_LISTENER event whose signal_id is i.
C31_Original ==
  \A i \in DOMAIN signal_vector :
    \A k \in 1..Len(signal_vector[i]) : RefersToListenerOf(signal_vector[i][k], i)

\* C32: update_timer(new_time) sets the timer counter to new_time and leaves
\* the timer list, the schedule queue, the event queue, both pools, the events
\* and the event loop as they are; it collects and invokes no timer: a timer
\* leaves the timer list only in a manage_timers step, of its own or of a tick.
C32_UpdateTimerOnlySetsTimer ==
  /\ [][\A t \in Times :
          AppUpdateTimer(t)
            => /\ timer' = t
               /\ UNCHANGED <<timer_list, schedule_queue, event_queue, event_pool, llist_node_pool,
                              events, fired, eq_order, loopVars>>]_vars
  /\ [][timer_list' # timer_list => ManageStep]_vars

\* The timer counter has been updated past the due time of a timer that is
\* still in the timer list, and no tick has collected it yet.
C32_Witness ==
  /\ pc = "idle"
  /\ timer > 0
  /\ run_scheduler
  /\ event_queue = <<>>
  /\ \E i \in 1..Len(timer_list) :
       /\ events[timer_list[i]].due_time <= timer
       /\ born[timer_list[i]] < timer
       /\ fired[timer_list[i]] = 0

\* C33: the run_scheduler flag is true after app_init, every app_update_timer
\* sets it, every app_tick leaves it false, also a tick that follows a tick
\* with no update_timer in between; the tick runs manage_timers when it finds
\* the flag set, and leaves the schedule queue, the timer list and the event
\* queue as they are when it finds it clear.
C33_RunSchedulerFlag ==
  /\ run_scheduler = TRUE
  /\ [][(\E t \in Times : AppUpdateTimer(t)) => run_scheduler']_vars
  /\ [][AppTick => ~run_scheduler']_vars
  /\ [][(AppTick /\ run_scheduler) => SchManageTimers]_vars
  /\ [][(AppTick /\ ~run_scheduler) => UNCHANGED <<schedule_queue, timer_list, event_queue>>]_vars

\* A tick that followed a tick without an update_timer in between: it found
\* the flag clear, skipped the scheduler step and left a timer waiting in the
\* schedule queue.
C33_Witness ==
  /\ pc = "run"
  /\ tick_time >= 0
  /\ ~tick_sched
  /\ ~run_scheduler
  /\ schedule_queue # <<>>

\* Event slot e is free, or held by a queue, the timer list, a listener list or
\* the run that is invoking its closure.
Accounted(e) ==
  \/ e \in FreeSet(event_pool)
  \/ InSeq(e, schedule_queue)
  \/ InSeq(e, event_queue)
  \/ InSeq(e, timer_list)
  \/ ListenerNodes(e) > 0
  \/ cur = e

\* C34: in every reachable state every event slot is free in the event pool
\* or reachable from the schedule queue, the event queue, the timer list or a
\* listener list (or is the event whose closure is running).
C34_Original == \A e \in Events : Accounted(e)

\* C35: no event slot is released while it is already free: in every
\* reachable state no slot appears twice in the free queue of the event pool.
C35_Original == \A e \in Events : Occurrences(e, event_pool) <= 1

\* The list nodes handed out by the node pool and not released.
OutstandingNodes == NodePoolSize - Cardinality(FreeSet(llist_node_pool))

\* The live timers: the timer events that a queue or the timer list holds or
\* whose closure is running.
LiveTimers ==
  {e \in Events : /\ events[e].kind = "TIMER"
                  /\ e \notin FreeSet(event_pool)
                  /\ (Referenced(e, event_queue, schedule_queue, timer_list) \/ cur = e)}

\* The nodes of the listener lists of signals 0..n.
RECURSIVE ListedNodesUpTo(_)
ListedNodesUpTo(n) == IF n < 0 THEN 0 ELSE Len(signal_vector[n]) + ListedNodesUpTo(n - 1)

RegisteredListeners == ListedNodesUpTo(Cardinality(DOMAIN signal_vector) - 1)

\* C36: in every reachable state the outstanding list nodes do not exceed
\* the live timers plus the registered listeners.
C36_Original == OutstandingNodes <= Cardinality(LiveTimers) + RegisteredListeners

(***************************************************************************)
(* The application fed as the README asks: the ISR keeps calling           *)
(* app_update_timer with increasing times (up to the bound of the model,   *)
(* where it goes on feeding the last time), the main loop keeps calling    *)
(* app_tick, and a run, once entered, keeps executing.  The ISR and the    *)
(* main loop's tick are enabled only at the positions where the model lets *)
(* them interleave (not between two pops of a run), so that calling them   *)
(* again and again is strong fairness here.                                *)
(***************************************************************************)
TickNext ==
  \/ \E t \in Times : AppUpdateTimer(t)
  \/ \E c \in Closures : EvloopEnqueueClosure(c)
  \/ \E d \in Periods, c \in Closures : SchRunLater(d, c)
  \/ \E p \in Periods \ {0}, i \in BOOLEAN, c \in Closures : SchRunAtIntervals(p, i, c)
  \/ AppTick
  \/ RunSteps

\* The next call of the timer ISR.
IsrFeed == \E t \in Times : (t > timer \/ t = MaxTime) /\ AppUpdateTimer(t)

SpecTickFair ==
  /\ Init
  /\ [][TickNext]_vars
  /\ SF_vars(IsrFeed)
  /\ SF_vars(AppTick)
  /\ WF_vars(RunPop)
  /\ WF_vars(ClosureReturn)
  /\ WF_vars(RunReturn)

\* C37: every timer that run_later has put in the schedule queue, with a due
\* time the timer counter reaches, is eventually invoked.
C37_Original ==
  \A e \in Events :
    (IsOneShotTimer(e) /\ InSeq(e, schedule_queue) /\ events[e].due_time <= MaxTime)
      ~> (pc = "closure" /\ cur = e)

====
